---- MODULE Spec2Model ----
(***************************************************************************)
(* The percentile chart visual (PercentileChart): its data-to-view-model   *)
(* transformation (converter, validateValues, parseSettings, getPrecision, *)
(* generateLegends) and the host lifecycle around it (init, update,        *)
(* destroy, enumerateObjectInstances) with what it draws (resize, draw,    *)
(* renderLegends, addTooltip).                                             *)
(*                                                                         *)
(* Two revisions of the class are modelled side by side:                   *)
(*   "ts"  src/src/Clients/Visuals/visuals/percentileChart.ts              *)
(*   "r0"  src/unnamed/part_000 (the earlier revision); its definitions    *)
(*         carry the suffix _r0.                                           *)
(*                                                                         *)
(* JavaScript values are records [kind, n].  Numbers are exact: finite     *)
(* inputs are integers and a percentile value, which d3 interpolates at a  *)
(* multiple of 1/q (q = range.length), is held as its numerator over q.    *)
(* Floating-point rounding is outside the model.                           *)
(* An optional field is a sequence: <<>> when absent, <<x>> when present.  *)
(***************************************************************************)
EXTENDS Integers, Sequences, FiniteSets, TLC

VARIABLES
    revision,         \* which revision of the class is built: "ts" or "r0"
    percentileRange,  \* static PercentileChart.percentileRange (optional)
    call,             \* the arguments of the converter call under study
    ret,              \* optional: what that call did (returned or threw)
    root,             \* per instance: "unset", "svg" (after init), "null" (destroy)
    model,            \* per instance: optional stored this.model
    caller,           \* the instance whose update made that call (0: none yet)
    display,          \* per instance: what the elements under this.root show
    enumerated        \* optional: what the last enumerateObjectInstances returned

vars == <<revision, percentileRange, call, ret, root, model, caller, display,
          enumerated>>

-----------------------------------------------------------------------------
(* Bounds and program constants *)

\* longest enumerated sample column
MaxLen == 3
\* length of the uniformly spaced dataset 1, 2, ..., UniformLen
UniformLen == 100
\* number of chart instances in the lifecycle specification
NumInstances == 2
\* the datasets drawn have their minimum and maximum in -DomainBound .. DomainBound
DomainBound == 25

\* for (let i = 0; i < 100; i++) values.push(i)
RangeLength == 100
\* for (let i = 0; i < 101; i++) result.push(...)
PointCount == 101
MinPrecision == 0
DefaultPrecision == 2
DefaultPrecision_r0 == 0
LegendSize == 50
AxisSize == 30
MarginSize == 10

-----------------------------------------------------------------------------
(* JavaScript values *)

None == <<>>
Some(x) == <<x>>
IsSome(m) == Len(m) > 0
Get(m) == m[1]

Num(x) == [kind |-> "number", n |-> x]
NaN == [kind |-> "NaN", n |-> 0]
PosInf == [kind |-> "+Infinity", n |-> 0]
NegInf == [kind |-> "-Infinity", n |-> 0]
Str == [kind |-> "string", n |-> 0]
Null == [kind |-> "null", n |-> 0]
Undefined == [kind |-> "undefined", n |-> 0]

\* typeof x === 'number' and not NaN
IsNumeric(x) == x.kind \in {"number", "+Infinity", "-Infinity"}

\* a < b of JavaScript on the values a sample column holds; the one string is
\* not numeric, so every comparison with it (and with NaN, undefined) is false
Less(a, b) ==
    /\ IsNumeric(a)
    /\ IsNumeric(b)
    /\ \/ a.kind = "-Infinity" /\ b.kind # "-Infinity"
       \/ b.kind = "+Infinity" /\ a.kind # "+Infinity"
       \/ a.kind = "number" /\ b.kind = "number" /\ a.n < b.n

\* a + b of IEEE arithmetic, exact on finite operands
Plus(a, b) ==
    IF a.kind = "number" /\ b.kind = "number" THEN Num(a.n + b.n)
    ELSE IF ~IsNumeric(a) \/ ~IsNumeric(b) THEN NaN
    ELSE IF a.kind = "number" THEN b
    ELSE IF b.kind = "number" THEN a
    ELSE IF a.kind = b.kind THEN a
    ELSE NaN

Negate(a) ==
    CASE a.kind = "number" -> Num(-a.n)
      [] a.kind = "+Infinity" -> NegInf
      [] a.kind = "-Infinity" -> PosInf
      [] OTHER -> NaN

\* c * a for a positive integer c
Times(c, a) == IF a.kind = "number" THEN Num(c * a.n) ELSE a

-----------------------------------------------------------------------------
(* d3 (v3) as the converter calls it *)

\* d3_number then d3_numeric: x === null ? NaN : +x, kept when not NaN
d3_numeric(x) == IsNumeric(x)

\* the position of s[j] after a stable ascending sort
SortedPosition(s, j) ==
    1 + Cardinality({k \in 1..Len(s) :
                        \/ Less(s[k], s[j])
                        \/ ~Less(s[j], s[k]) /\ k < j})

\* array.sort(d3_ascending), on numeric elements
SortAscending(s) ==
    [i \in 1..Len(s) |-> s[CHOOSE j \in 1..Len(s) : SortedPosition(s, j) = i]]

\* the domain left in column order: what a dropped sort would give
quantileDomain_unsorted(x) == SelectSeq(x, d3_numeric)

\* scale.domain(x): domain = x.map(d3_number).filter(d3_numeric).sort(d3_ascending)
quantileDomain(x) == SortAscending(SelectSeq(x, d3_numeric))

\* values[i] of a JavaScript array (zero-based), coerced with unary +
ElementAt(values, i) ==
    IF i >= 0 /\ i < Len(values) THEN values[i + 1] ELSE NaN

\* the quantile without its interpolation term: the lower neighbour alone
d3_quantile_lower(values, k, q) ==
    Times(q, ElementAt(values, ((Len(values) - 1) * k) \div q))

\* d3.quantile(values, p) at p = k / q, the result in units of 1/q:
\*   H = (values.length - 1) * p + 1, h = Math.floor(H), v = +values[h - 1],
\*   e = H - h;  return e ? v + e * (values[h] - v) : v
d3_quantile(values, k, q) ==
    LET R == (Len(values) - 1) * k
        h == (R \div q) + 1
        e == R % q
        v == ElementAt(values, h - 1)
        w == ElementAt(values, h)
    IN  IF e = 0 THEN Times(q, v)
        ELSE Plus(Times(q, v), Times(e, Plus(w, Negate(v))))

\* d3.scale.quantile().domain(values).range(range).quantiles():
\*   k = 0, q = range.length; while (++k < q) thresholds[k - 1] = d3.quantile(domain, k / q)
quantiles(values, range) ==
    LET q == Len(range)
        domain == quantileDomain(values)
    IN  [k \in 1..(IF q > 1 THEN q - 1 ELSE 0) |-> d3_quantile(domain, k, q)]

\* (b = array[i]) != null && b >= b
Comparable(x) == x.kind \notin {"null", "undefined", "NaN"}

\* while (++i < n) if ((b = array[i]) != null && b >= b) { a = b; break; }
FirstComparable(array) ==
    LET I == {i \in 1..Len(array) : Comparable(array[i])}
    IN  IF I = {} THEN 0 ELSE CHOOSE i \in I : \A j \in I : i <= j

\* while (++i < n) if ((b = array[i]) != null && a > b) a = b;
\* a > b is false unless both are numeric: the scan keeps a first element that
\* is not numeric, and otherwise ends at the least numeric element after it
d3_min(array) ==
    LET i0 == FirstComparable(array)
        I == {i \in i0..Len(array) : IsNumeric(array[i])}
    IN  IF i0 = 0 THEN Undefined
        ELSE IF ~IsNumeric(array[i0]) THEN array[i0]
        ELSE array[CHOOSE i \in I : \A j \in I : ~Less(array[j], array[i])]

\* while (++i < n) if ((b = array[i]) != null && a < b) a = b;
d3_max(array) ==
    LET i0 == FirstComparable(array)
        I == {i \in i0..Len(array) : IsNumeric(array[i])}
    IN  IF i0 = 0 THEN Undefined
        ELSE IF ~IsNumeric(array[i0]) THEN array[i0]
        ELSE array[CHOOSE i \in I : \A j \in I : ~Less(array[i], array[j])]

\* d3.extent(array) = [min, max] found in one pass
d3_extent(array) == <<d3_min(array), d3_max(array)>>

-----------------------------------------------------------------------------
(* PercentileChart: statics *)

yAxisTitle == "Percentile"
InvalidDataMessage == "Invalid data: Use numeric values"

Properties ==
    [general |-> [formatString |-> [objectName |-> "general", propertyName |-> "formatString"]],
     dataPoint |-> [fill |-> [objectName |-> "dataPoint", propertyName |-> "fill"]],
     labels |-> [labelPrecision |-> [objectName |-> "labels", propertyName |-> "labelPrecision"]]]

\* the defaults with another fill colour
DefaultSettings_black ==
    [fillColor |-> "black", precision |-> DefaultPrecision, xAxisTitle |-> ""]

DefaultSettings ==
    [fillColor |-> "teal", precision |-> DefaultPrecision, xAxisTitle |-> ""]

DefaultSettings_r0 ==
    [fillColor |-> "teal", precision |-> DefaultPrecision_r0, xAxisTitle |-> ""]

\* a table one entry short: 0 .. 98
InitialRange_short == [i \in 1..(RangeLength - 1) |-> i - 1]

\* the table init builds: values.push(i) for i = 0 .. 99
InitialRange == [i \in 1..RangeLength |-> i - 1]

-----------------------------------------------------------------------------
(* Host helpers the class calls: DataViewObjects, ColorHelper, AxisHelper,  *)
(* ValueFormatter                                                          *)

\* DataViewObjects.getValue(objects, propertyId, defaultValue): the property's
\* value, or the default when objects, the object or the property is absent
getValue(objects, propertyId, defaultValue) ==
    IF ~IsSome(objects) THEN defaultValue
    ELSE LET object == Get(objects)[propertyId.objectName]
         IN  IF ~IsSome(object) THEN defaultValue
             ELSE LET propertyValue == Get(object)[propertyId.propertyName]
                  IN  IF ~IsSome(propertyValue) THEN defaultValue
                      ELSE Get(propertyValue)

\* new ColorHelper(colors, fillProp, defaultColor).getColorForMeasure(objects, ''):
\* the configured fill, else the default colour
getColorForMeasure(objects, fillProp, defaultDataPointColor) ==
    getValue(objects, fillProp, defaultDataPointColor)

\* AxisHelper.createAxis(options): the axis properties built from the options
createAxis(options) == options

\* ValueFormatter.create(options)
createFormatter(options) == options

-----------------------------------------------------------------------------
(* PercentileChart: the transformation *)

\* the validation without isFinite: typeof x === 'number' alone
validateValues_typeof(values) ==
    \A i \in 1..Len(values) :
        values[i].kind \in {"number", "NaN", "+Infinity", "-Infinity"}

\* _.all(values, (x) => typeof x === 'number' && isFinite(x))
validateValues(values) == \A i \in 1..Len(values) : values[i].kind = "number"

\* the precision as configured, without the clamp to MinPrecision
getPrecision_unclamped(objects) ==
    IF ~IsSome(objects) THEN DefaultPrecision
    ELSE getValue(objects, [objectName |-> "labels", propertyName |-> "labelPrecision"],
                  DefaultPrecision)

getPrecision(objects) ==
    IF ~IsSome(objects) THEN DefaultSettings.precision
    ELSE LET precision == getValue(objects, Properties.labels.labelPrecision,
                                   DefaultSettings.precision)
         IN  IF precision < MinPrecision THEN MinPrecision ELSE precision

getPrecision_r0(objects) ==
    IF ~IsSome(objects) THEN DefaultSettings_r0.precision
    ELSE LET precision == getValue(objects, Properties.labels.labelPrecision,
                                   DefaultSettings_r0.precision)
         IN  IF precision <= MinPrecision THEN MinPrecision ELSE precision

\* !dataView.metadata || !dataView.metadata.columns || !dataView.metadata.columns[0]
NoFirstColumn(dataView) ==
    \/ ~IsSome(dataView.metadata)
    \/ ~IsSome(Get(dataView.metadata).columns)
    \/ Len(Get(Get(dataView.metadata).columns)) = 0

\* a display name is falsy when it is absent or empty; both are ""
parseSettings(dataView, usedValues) ==
    IF NoFirstColumn(dataView) THEN None
    ELSE LET objects == Get(dataView.metadata).objects
             columns == Get(Get(dataView.metadata).columns)
             xAxisTitle ==
                 IF usedValues
                 THEN IF /\ Len(columns) > 1
                         /\ columns[1].displayName # ""
                         /\ columns[2].displayName # ""
                      THEN columns[2].displayName \o " per " \o columns[1].displayName
                      ELSE DefaultSettings.xAxisTitle
                 ELSE IF columns[1].displayName # ""
                      THEN columns[1].displayName
                      ELSE DefaultSettings.xAxisTitle
         IN  Some([precision |-> getPrecision(objects),
                   xAxisTitle |-> xAxisTitle,
                   fillColor |-> getColorForMeasure(objects, Properties.dataPoint.fill,
                                                    DefaultSettings.fillColor)])

parseSettings_r0(dataView) ==
    IF NoFirstColumn(dataView) THEN None
    ELSE LET objects == Get(dataView.metadata).objects
             columns == Get(Get(dataView.metadata).columns)
         IN  Some([precision |-> getPrecision_r0(objects),
                   xAxisTitle |-> IF columns[1].displayName # ""
                                  THEN columns[1].displayName
                                  ELSE DefaultSettings_r0.xAxisTitle,
                   fillColor |-> getColorForMeasure(objects, Properties.dataPoint.fill,
                                                    DefaultSettings_r0.fillColor)])

\* the legends without the y-axis entry
generateLegends_xOnly(viewport, xAxisTitle) ==
    << [transform |-> <<"translate",
                        (viewport.width - MarginSize - MarginSize) \div 2,
                        viewport.height - MarginSize - MarginSize>>,
        text |-> xAxisTitle, dx |-> "1em", dy |-> "-1em"] >>

\* the two legends in the other order: the y-axis legend first
generateLegends_swapped(viewport, xAxisTitle) ==
    << [transform |-> <<"translateAndRotate", 0,
                        (viewport.height - MarginSize - MarginSize) \div 2, 0, 0, 270>>,
        text |-> yAxisTitle, dx |-> "3em", dy |-> ""],
       [transform |-> <<"translate",
                        (viewport.width - MarginSize - MarginSize) \div 2,
                        viewport.height - MarginSize - MarginSize>>,
        text |-> xAxisTitle, dx |-> "1em", dy |-> "-1em"] >>

\* viewport sizes are even, so the halves are exact
generateLegends(viewport, xAxisTitle) ==
    << [transform |-> <<"translate",
                        (viewport.width - MarginSize - MarginSize) \div 2,
                        viewport.height - MarginSize - MarginSize>>,
        text |-> xAxisTitle, dx |-> "1em", dy |-> "-1em"],
       [transform |-> <<"translateAndRotate", 0,
                        (viewport.height - MarginSize - MarginSize) \div 2, 0, 0, 270>>,
        text |-> yAxisTitle, dx |-> "3em", dy |-> ""] >>

Max(a, b) == IF a >= b THEN a ELSE b

\* what a converter call does: it returns null, returns a view-model, or throws
ReturnNull == [outcome |-> "return", value |-> None]
Return(viewModel) == [outcome |-> "return", value |-> Some(viewModel)]
ThrowTypeError == [outcome |-> "TypeError", value |-> None]

\* categories[0].values is missing or has no element
NoCategoryValues(dataView) ==
    \/ ~IsSome(dataView.categorical)
    \/ Len(Get(dataView.categorical).categories) = 0
    \/ ~IsSome(Get(dataView.categorical).categories[1].values)
    \/ ~(Len(Get(Get(dataView.categorical).categories[1].values)) > 0)

\* a converter that never looks at the values column
HasValuesColumn_never(dataView) == FALSE

\* dataView.categorical.values && values[0] && values[0].values
HasValuesColumn(dataView) ==
    /\ Len(Get(dataView.categorical).values) > 0
    /\ IsSome(Get(dataView.categorical).values[1].values)

\* percentiles.unshift(min); percentiles.push(max): min and max in units of 1/q
withExtremes(thresholds, min, max, q) ==
    <<Times(q, min)>> \o thresholds \o <<Times(q, max)>>

\* for (let i = 0; i < 101; i++) result.push({percentile: i, value: percentiles[i]})
percentilePoints(percentiles) ==
    [j \in 1..PointCount |->
        [percentile |-> j - 1,
         value |-> IF j <= Len(percentiles) THEN percentiles[j] ELSE Undefined]]

converter(dataView, viewport, range) ==
    IF NoCategoryValues(dataView) THEN ReturnNull
    ELSE IF ~IsSome(range) THEN ThrowTypeError
    ELSE
    LET usedValues == HasValuesColumn(dataView)
        column == IF usedValues THEN Get(dataView.categorical).values[1]
                  ELSE Get(dataView.categorical).categories[1]
        metadataColumn == column.source
        values == Get(column.values)
    IN  IF ~validateValues(values)
        THEN Return([percentiles |-> None, settings |-> None, xAxis |-> None,
                     yAxis |-> None, formatter |-> None,
                     legends |-> Some(generateLegends(viewport, InvalidDataMessage))])
        ELSE
        LET extent == d3_extent(values)
            min == extent[1]
            max == extent[2]
            percentiles == withExtremes(quantiles(values, Get(range)), min, max,
                                        Len(Get(range)))
            result == percentilePoints(percentiles)
            settings == parseSettings(dataView, usedValues)
            effectiveWidth == Max(0, viewport.width - MarginSize - MarginSize
                                     - LegendSize - AxisSize)
            effectiveHeight == Max(0, viewport.height - MarginSize - MarginSize
                                      - LegendSize)
        IN  IF ~IsSome(settings) THEN ThrowTypeError
            ELSE
            LET xAxis == createAxis([pixelSpan |-> effectiveWidth,
                                     dataDomain |-> <<min, max>>,
                                     metaDataColumn |-> Some(metadataColumn),
                                     axisPrecision |-> Some(Get(settings).precision),
                                     isVertical |-> FALSE,
                                     tickSize |-> -effectiveHeight])
                yAxis == createAxis([pixelSpan |-> effectiveHeight,
                                     dataDomain |-> <<Num(0), Num(100)>>,
                                     metaDataColumn |-> None,
                                     axisPrecision |-> None,
                                     isVertical |-> TRUE,
                                     tickSize |-> -effectiveWidth])
            IN  Return([percentiles |-> Some(result), settings |-> settings,
                        xAxis |-> Some(xAxis), yAxis |-> Some(yAxis),
                        formatter |-> None,
                        legends |-> Some(generateLegends(viewport,
                                                         Get(settings).xAxisTitle))])

converter_r0(dataView, range) ==
    IF NoCategoryValues(dataView) THEN ReturnNull
    ELSE IF ~IsSome(range) THEN ThrowTypeError
    ELSE
    LET values == Get(Get(dataView.categorical).categories[1].values)
        min == d3_min(values)
        max == d3_max(values)
        percentiles == withExtremes(quantiles(values, Get(range)), min, max,
                                    Len(Get(range)))
        result == percentilePoints(percentiles)
        settings == parseSettings_r0(dataView)
    IN  IF ~IsSome(settings) THEN ThrowTypeError
        ELSE Return([percentiles |-> Some(result), settings |-> settings,
                     xAxis |-> None, yAxis |-> None, legends |-> None,
                     formatter |->
                         Some(createFormatter(
                             [format |-> Get(dataView.categorical).categories[1].source.format,
                              value |-> values[1],
                              precision |-> Get(settings).precision]))])

-----------------------------------------------------------------------------
(* PercentileChart: what the elements under this.root show *)

\* the elements init appends: an empty svg, no legend, axis, path or circle
NoDisplay ==
    [size |-> None, axisXOffset |-> None, legends |-> <<>>, axes |-> None,
     curve |-> None, circles |-> None, tooltips |-> None]

\* this.root.attr({height, width}) and the transform of this.axisX
resize(shown, viewport) ==
    [shown EXCEPT
        !.size = Some([height |-> Max(0, viewport.height),
                       width |-> Max(0, viewport.width)]),
        !.axisXOffset = Some(viewport.height - MarginSize - MarginSize - LegendSize)]

resize_r0(shown, viewport) ==
    [shown EXCEPT
        !.size = Some([height |-> viewport.height, width |-> viewport.width]),
        !.axisXOffset = Some(viewport.height - MarginSize - MarginSize - LegendSize)]

\* the padding AxisHelper gives a scale whose data domain has min = max
DefaultPadding == 1

\* AxisHelper.createAxis: the domain of the scale it builds for dataDomain
scaleDomain(axisProperties) ==
    LET dataDomain == axisProperties.dataDomain
    IN  IF dataDomain[1].kind = "number" /\ dataDomain[1] = dataDomain[2]
        THEN <<Num(dataDomain[1].n - DefaultPadding),
               Num(dataDomain[2].n + DefaultPadding)>>
        ELSE dataDomain

\* Math.round(value / 10.0): to the nearest multiple of 10, for a value held
\* in units of 1/100
domainMin_nearest(value) ==
    IF value.kind = "number" THEN Num(((1000 * value.n + 500000) \div 1000000) * 10)
    ELSE IF value.kind \in {"+Infinity", "-Infinity"} THEN value
    ELSE IF value.kind = "null" THEN Num(0)
    ELSE NaN

\* Math.round(value / 10.0 - 0.499999) * 10, for a value held in units of
\* 1/100: Math.round(y) is floor(y + 1/2), and value / 10 - 0.499999 + 1/2 is
\* (1000 * n + 1) / 1000000
domainMin(value) ==
    IF value.kind = "number" THEN Num(((1000 * value.n + 1) \div 1000000) * 10)
    ELSE IF value.kind \in {"+Infinity", "-Infinity"} THEN value
    ELSE IF value.kind = "null" THEN Num(0)
    ELSE NaN

\* Math.round(value / 10.0 + 0.499999) * 10: value / 10 + 0.499999 + 1/2 is
\* (1000 * n + 999999) / 1000000
domainMax(value) ==
    IF value.kind = "number" THEN Num(((1000 * value.n + 999999) \div 1000000) * 10)
    ELSE IF value.kind \in {"+Infinity", "-Infinity"} THEN value
    ELSE IF value.kind = "null" THEN Num(0)
    ELSE NaN

\* TooltipManager.addTooltip(selection, ...) for every element: each callback
\* keeps the datum of its element and the model it was created with, and
\* reports data.percentile and formatter.format(data.value)
addTooltip(data, formatter) == [data |-> data, formatter |-> formatter]

\* selectAll(".legend").data(legends): one text element per legend
renderLegends(legends) == legends

\* draw(model, animate) of percentileChart.ts: the legends always; the axes,
\* the path and the circles with their tooltips only when model.percentiles
draw(shown, viewModel) ==
    LET legends == renderLegends(Get(viewModel.legends))
    IN  IF IsSome(viewModel.percentiles)
        THEN [shown EXCEPT
                 !.legends = legends,
                 !.axes = Some([x |-> scaleDomain(Get(viewModel.xAxis)),
                                y |-> scaleDomain(Get(viewModel.yAxis))]),
                 !.curve = viewModel.percentiles,
                 !.circles = viewModel.percentiles,
                 !.tooltips = Some(addTooltip(Get(viewModel.percentiles),
                                              viewModel.xAxis))]
        ELSE [shown EXCEPT !.legends = legends]

\* draw(model, viewport, animate) of the earlier revision: the x domain is
\* rounded outward, the legends are built from this.model.settings, and only
\* the circles that enter (none once 101 exist) get a tooltip
draw_r0(shown, viewModel, viewport) ==
    LET percentiles == Get(viewModel.percentiles)
    IN  [shown EXCEPT
            !.axes = Some([x |-> <<domainMin(percentiles[1].value),
                                   domainMax(percentiles[PointCount].value)>>,
                           y |-> <<Num(0), Num(100)>>]),
            !.legends = renderLegends(generateLegends(viewport,
                                          Get(viewModel.settings).xAxisTitle)),
            !.curve = viewModel.percentiles,
            !.circles = viewModel.percentiles,
            !.tooltips = IF IsSome(shown.circles) THEN shown.tooltips
                         ELSE Some(addTooltip(percentiles, viewModel.formatter))]

\* an enumeration that reports the default settings, whatever is stored
enumerateInstances_defaults(stored, objectName) ==
    IF ~IsSome(stored) THEN <<>>
    ELSE IF ~IsSome(Get(stored).settings) THEN <<>>
    ELSE IF objectName = "dataPoint"
         THEN <<[objectName |-> "dataPoint", displayName |-> "dataPoint",
                 properties |-> [fill |-> DefaultSettings.fillColor]]>>
         ELSE IF objectName = "labels"
         THEN <<[objectName |-> "labels", displayName |-> "labels",
                 properties |-> [labelPrecision |-> DefaultSettings.precision]]>>
         ELSE <<>>

\* the instances enumerateObjectInstances returns for a stored model
enumerateInstances(stored, objectName) ==
    IF ~IsSome(stored) THEN <<>>
    ELSE IF ~IsSome(Get(stored).settings) THEN <<>>
    ELSE LET settings == Get(Get(stored).settings)
         IN  IF objectName = "dataPoint"
             THEN <<[objectName |-> "dataPoint", displayName |-> "dataPoint",
                     properties |-> [fill |-> settings.fillColor]]>>
             ELSE IF objectName = "labels"
             THEN <<[objectName |-> "labels", displayName |-> "labels",
                     properties |-> [labelPrecision |-> settings.precision]]>>
             ELSE <<>>

-----------------------------------------------------------------------------
(* The inputs the host can hand to the visual, within the bounds *)

Revisions == {"ts", "r0"}
Instances == 1..NumInstances

\* finite sample values
Nums == {-13, 7, 10}
Elems == {Num(x) : x \in Nums} \cup {NaN, PosInf, NegInf, Str, Null}

SeqsUpTo(S, n) == UNION {[1..k -> S] : k \in 0..n}

\* the uniformly spaced dataset 1, 2, ..., UniformLen
Uniform == [i \in 1..UniformLen |-> Num(i)]

Datasets == SeqsUpTo(Elems, MaxLen) \cup {Uniform}
FewDatasets == {<<Num(7)>>, <<Num(10), Num(-13)>>, <<Num(7), NaN>>}

CategorySource(name) == [displayName |-> name, roles |-> "Category", format |-> None]
ValuesSource(name) == [displayName |-> name, roles |-> "Values", format |-> None]
CategoryNames == {"", "Region"}
ValuesNames == {"", "Sales"}

Column(values, source) == [values |-> values, source |-> source]

Precisions == {-3, -1, 0, 1, 4}
LabelsObjects ==
    {None, Some([labelPrecision |-> None])}
        \cup {Some([labelPrecision |-> Some(p)]) : p \in Precisions}
DataPointObjects == {None, Some([fill |-> None]), Some([fill |-> Some("red")])}
ObjectsSet ==
    {None} \cup {Some([labels |-> l, dataPoint |-> d]) :
                    l \in LabelsObjects, d \in DataPointObjects}

\* metadata.columns lists the bound columns, in either order, or is missing
ColumnLists(cat, val, usedValues) ==
    IF usedValues
    THEN {None, Some(<<>>), Some(<<cat, val>>), Some(<<val, cat>>)}
    ELSE {None, Some(<<>>), Some(<<cat>>)}

MetadataSet(cat, val, usedValues) ==
    {None} \cup {Some([columns |-> c, objects |-> o]) :
                    c \in ColumnLists(cat, val, usedValues), o \in ObjectsSet}

PlainMetadata(cat, val, usedValues) ==
    {None,
     Some([columns |-> IF usedValues THEN Some(<<cat, val>>) ELSE Some(<<cat>>),
           objects |-> None])}

DataView(categories, values, metadata) ==
    [categorical |-> Some([categories |-> categories, values |-> values]),
     metadata |-> metadata]

DefaultViewport == [width |-> 300, height |-> 200]
Viewports == {DefaultViewport, [width |-> 40, height |-> 20]}

\* every sample column as the category column, no values column bound
CategoryDataViews ==
    {DataView(<<Column(Some(d), CategorySource("Region"))>>, <<>>, m) :
        d \in Datasets,
        m \in PlainMetadata(CategorySource("Region"), ValuesSource("Sales"), FALSE)}

\* every sample column as the values column, beside a category column
ValuesDataViews ==
    {DataView(<<Column(Some(c), CategorySource("Region"))>>,
              <<Column(Some(d), ValuesSource("Sales"))>>, m) :
        c \in {<<>>, <<Num(7)>>, <<Str>>}, d \in Datasets,
        m \in PlainMetadata(CategorySource("Region"), ValuesSource("Sales"), TRUE)}

\* every metadata, over a few sample columns
CategoryMetadataDataViews ==
    UNION {{DataView(<<Column(Some(d), CategorySource(cn))>>, <<>>, m) :
                d \in FewDatasets,
                m \in MetadataSet(CategorySource(cn), ValuesSource(""), FALSE)} :
           cn \in CategoryNames}

ValuesMetadataDataViews ==
    UNION {{DataView(<<Column(Some(<<Num(7), Num(7)>>), CategorySource(cn))>>,
                     <<Column(Some(d), ValuesSource(vn))>>, m) :
                d \in FewDatasets,
                m \in MetadataSet(CategorySource(cn), ValuesSource(vn), TRUE)} :
           cn \in CategoryNames, vn \in ValuesNames}

\* the parts of dataView.categorical that can be missing
PartialDataViews ==
    LET cat == CategorySource("Region")
        val == ValuesSource("Sales")
        meta == Some([columns |-> Some(<<cat, val>>), objects |-> None])
    IN  {[categorical |-> None, metadata |-> meta],
         DataView(<<>>, <<>>, meta),
         DataView(<<Column(None, cat)>>, <<>>, meta),
         DataView(<<>>, <<Column(Some(<<Num(7)>>), val)>>, meta),
         DataView(<<Column(None, cat)>>, <<Column(Some(<<Num(7)>>), val)>>, meta),
         DataView(<<Column(Some(<<Num(7)>>), cat)>>, <<Column(None, val)>>, meta)}

ConverterCalls ==
    {[dataView |-> dv, viewport |-> DefaultViewport] :
        dv \in CategoryDataViews \cup ValuesDataViews \cup CategoryMetadataDataViews
               \cup ValuesMetadataDataViews \cup PartialDataViews}
    \cup
    {[dataView |-> dv, viewport |-> vp] :
        dv \in {DataView(<<Column(Some(d), CategorySource("Region"))>>, <<>>,
                         Some([columns |-> Some(<<CategorySource("Region")>>),
                               objects |-> None])) : d \in FewDatasets},
        vp \in Viewports}

-----------------------------------------------------------------------------
(* The transformation on its own: one converter call on a built visual *)

InitConverter ==
    /\ revision \in Revisions
    /\ percentileRange = Some(InitialRange)
    /\ call \in ConverterCalls
    /\ ret = None
    /\ root = [i \in Instances |-> "svg"]
    /\ model = [i \in Instances |-> None]
    /\ caller = 0
    /\ display = [i \in Instances |-> NoDisplay]
    /\ enumerated = None

CallConverter ==
    /\ ret = None
    /\ ret' = Some(IF revision = "ts"
                   THEN converter(call.dataView, call.viewport, percentileRange)
                   ELSE converter_r0(call.dataView, percentileRange))
    /\ UNCHANGED <<revision, percentileRange, call, root, model, caller, display,
                   enumerated>>

NextConverter == CallConverter

SpecConverter == InitConverter /\ [][NextConverter]_vars

-----------------------------------------------------------------------------
(* The host lifecycle: init, update and destroy on each chart instance *)

\* a dataView whose category column holds the dataset d
CategoryDataView(d, metadata) ==
    DataView(<<Column(Some(d), CategorySource("Region"))>>, <<>>, metadata)

RegionMetadata ==
    Some([columns |-> Some(<<CategorySource("Region")>>), objects |-> None])

\* options whose dataViews is missing, holds no first dataView, or holds one
\* of dataViews
OptionsOver(dataViews, viewports) ==
    {[dataViews |-> dvs, viewport |-> vp] :
        dvs \in {None, Some(<<None>>)} \cup {Some(<<Some(dv)>>) : dv \in dataViews},
        vp \in viewports}

\* one dataset and the empty one
LifecycleDataViews ==
    {CategoryDataView(d, RegionMetadata) : d \in {<<Num(7)>>, <<>>}}

UpdateOptions == OptionsOver(LifecycleDataViews, {DefaultViewport})

NoCall == [dataView |-> [categorical |-> None, metadata |-> None],
           viewport |-> DefaultViewport]

Init ==
    /\ revision \in Revisions
    /\ percentileRange = None
    /\ call = NoCall
    /\ ret = None
    /\ root = [i \in Instances |-> "unset"]
    /\ model = [i \in Instances |-> None]
    /\ caller = 0
    /\ display = [i \in Instances |-> NoDisplay]
    /\ enumerated = None

\* an init that rebuilds the table from the one it finds
initRange_rebuilt(range) ==
    IF ~IsSome(range) THEN Some(InitialRange) ELSE Some(Tail(Get(range)))

\* if (!PercentileChart.percentileRange) { ...; PercentileChart.percentileRange = values }
initRange(range) == IF ~IsSome(range) THEN Some(InitialRange) ELSE range

\* init appends a new svg with empty groups and points this.root at it
init(i) ==
    /\ root' = [root EXCEPT ![i] = "svg"]
    /\ display' = [display EXCEPT ![i] = NoDisplay]
    /\ percentileRange' = initRange(percentileRange)
    /\ UNCHANGED <<revision, call, ret, model, caller, enumerated>>

\* !options.dataViews || !options.dataViews[0]
NoDataView(options) ==
    \/ ~IsSome(options.dataViews)
    \/ Len(Get(options.dataViews)) = 0
    \/ ~IsSome(Get(options.dataViews)[1])

\* this.model = this.converter(...) assigns only when converter returns;
\* resize throws on this.root.attr unless init has run and destroy has not
update(i, options) ==
    IF NoDataView(options) THEN UNCHANGED vars
    ELSE LET dataView == Get(Get(options.dataViews)[1])
         IN  \E result \in {IF revision = "ts"
                             THEN converter(dataView, options.viewport, percentileRange)
                             ELSE converter_r0(dataView, percentileRange)} :
             LET drawn == result.outcome = "return" /\ IsSome(result.value)
                          /\ root[i] = "svg"
             IN
             /\ call' = [dataView |-> dataView, viewport |-> options.viewport]
             /\ ret' = Some(result)
             /\ caller' = i
             /\ model' = IF result.outcome = "return"
                         THEN [model EXCEPT ![i] = result.value]
                         ELSE model
             /\ display' =
                    IF ~drawn THEN display
                    ELSE IF revision = "ts"
                    THEN [display EXCEPT
                             ![i] = draw(resize(display[i], options.viewport),
                                         Get(result.value))]
                    ELSE [display EXCEPT
                             ![i] = draw_r0(resize_r0(display[i], options.viewport),
                                            Get(result.value), options.viewport)]
             /\ UNCHANGED <<revision, percentileRange, root, enumerated>>

\* a destroy that also drops the static table
destroy_clearingRange(i) ==
    /\ root' = [root EXCEPT ![i] = "null"]
    /\ percentileRange' = None
    /\ UNCHANGED <<revision, call, ret, model, caller, display, enumerated>>

destroy(i) ==
    /\ root' = [root EXCEPT ![i] = "null"]
    /\ UNCHANGED <<revision, percentileRange, call, ret, model, caller, display,
                   enumerated>>

ObjectNames == {"dataPoint", "labels", "general"}

enumerateObjectInstances(i, objectName) ==
    /\ enumerated' = Some([instance |-> i, objectName |-> objectName,
                           instances |-> enumerateInstances(model[i], objectName)])
    /\ UNCHANGED <<revision, percentileRange, call, ret, root, model, caller,
                   display>>

Next ==
    \E i \in Instances :
        \/ init(i)
        \/ \E options \in UpdateOptions : update(i, options)
        \/ destroy(i)
        \/ \E objectName \in ObjectNames : enumerateObjectInstances(i, objectName)

Spec == Init /\ [][Next]_vars

-----------------------------------------------------------------------------
(* Sequences of updates with different data on several instances *)

\* two datasets, the empty one, and one without metadata
HistoryDataViews ==
    {CategoryDataView(d, RegionMetadata) : d \in {<<Num(7)>>, <<Num(10), Num(-13)>>, <<>>}}
        \cup {CategoryDataView(<<Num(7)>>, None)}

HistoryOptions == OptionsOver(HistoryDataViews, {DefaultViewport})

NextUpdates ==
    \E i \in Instances :
        \/ init(i)
        \/ \E options \in HistoryOptions : update(i, options)
        \/ destroy(i)

SpecUpdates == Init /\ [][NextUpdates]_vars

-----------------------------------------------------------------------------
(* The same sequences under a host that calls init on an instance before *)
(* any other handler of it                                                *)

updateAfterInit(i, options) == root[i] # "unset" /\ update(i, options)

destroyAfterInit(i) == root[i] # "unset" /\ destroy(i)

NextInitFirst ==
    \E i \in Instances :
        \/ init(i)
        \/ \E options \in HistoryOptions : updateAfterInit(i, options)
        \/ destroyAfterInit(i)

SpecInitFirst == Init /\ [][NextInitFirst]_vars

-----------------------------------------------------------------------------
(* What one built instance shows over a sequence of updates *)

DisplayDatasets ==
    {<<Num(7)>>, <<Num(10), Num(-13)>>, <<Num(7), NaN>>, <<Str>>, <<>>}

DisplayDataViews ==
    {CategoryDataView(d, RegionMetadata) : d \in DisplayDatasets}
        \cup {CategoryDataView(<<Num(7)>>, None)}

DisplayOptions == OptionsOver(DisplayDataViews, Viewports)

InitDisplay ==
    /\ revision \in Revisions
    /\ percentileRange = Some(InitialRange)
    /\ call = NoCall
    /\ ret = None
    /\ root = [i \in Instances |-> "svg"]
    /\ model = [i \in Instances |-> None]
    /\ caller = 0
    /\ display = [i \in Instances |-> NoDisplay]
    /\ enumerated = None

NextDisplay == \E options \in DisplayOptions : update(1, options)

SpecDisplay == InitDisplay /\ [][NextDisplay]_vars

-----------------------------------------------------------------------------
(* The format pane: enumerateObjectInstances between the updates of built *)
(* instances                                                              *)

\* metadata whose objects carry the given labels and dataPoint objects
ObjectsMetadata(labels, dataPoint) ==
    Some([columns |-> Some(<<CategorySource("Region")>>),
          objects |-> Some([labels |-> labels, dataPoint |-> dataPoint])])

\* a dataset with a configured fill and precision, the same with a negative
\* precision and no fill, a column that is not numeric, and the empty one
EnumerateDataViews ==
    {CategoryDataView(<<Num(7)>>,
                      ObjectsMetadata(Some([labelPrecision |-> Some(4)]),
                                      Some([fill |-> Some("red")]))),
     CategoryDataView(<<Num(7)>>,
                      ObjectsMetadata(Some([labelPrecision |-> Some(-3)]), None)),
     CategoryDataView(<<Str>>, RegionMetadata),
     CategoryDataView(<<>>, RegionMetadata)}

EnumerateOptions == OptionsOver(EnumerateDataViews, {DefaultViewport})

NextEnumerate ==
    \E i \in Instances :
        \/ \E options \in EnumerateOptions : update(i, options)
        \/ \E objectName \in ObjectNames : enumerateObjectInstances(i, objectName)

SpecEnumerate == InitDisplay /\ [][NextEnumerate]_vars

-----------------------------------------------------------------------------
(* The tooltips of one built instance over updates with valid data only *)

TooltipDatasets ==
    {<<Num(7)>>, <<Num(10)>>, <<Num(10), Num(-13)>>, <<Num(-13), Num(7), Num(10)>>}

\* valid datasets whose metadata names the column, with the default and with
\* a configured precision
TooltipDataViews ==
    {CategoryDataView(d, m) :
        d \in TooltipDatasets,
        m \in {RegionMetadata,
               ObjectsMetadata(Some([labelPrecision |-> Some(4)]), None)}}

TooltipOptions == OptionsOver(TooltipDataViews, Viewports)

NextTooltips == \E options \in TooltipOptions : update(1, options)

SpecTooltips == InitDisplay /\ [][NextTooltips]_vars

-----------------------------------------------------------------------------
(* One update of a built instance, over every pair min <= max of integers *)

DrawDatasets ==
    UNION {{<<Num(min), Num(max)>> : max \in min..DomainBound} :
              min \in -DomainBound..DomainBound}
        \cup {<<Num(13), Num(77)>>}

DrawDataViews == {CategoryDataView(d, RegionMetadata) : d \in DrawDatasets}

InitDraw ==
    /\ revision \in Revisions
    /\ percentileRange = Some(InitialRange)
    /\ call \in {[dataView |-> dv, viewport |-> DefaultViewport] : dv \in DrawDataViews}
    /\ ret = None
    /\ root = [i \in Instances |-> "svg"]
    /\ model = [i \in Instances |-> None]
    /\ caller = 0
    /\ display = [i \in Instances |-> NoDisplay]
    /\ enumerated = None

UpdateOnce ==
    /\ ret = None
    /\ update(1, [dataViews |-> Some(<<Some(call.dataView)>>),
                  viewport |-> call.viewport])

NextDraw == UpdateOnce

SpecDraw == InitDraw /\ [][NextDraw]_vars

-----------------------------------------------------------------------------
(* What the claims speak of: the call, its sample column, its result *)

Called == IsSome(ret)
Outcome == Get(ret)
ReturnedModel == Called /\ Outcome.outcome = "return" /\ IsSome(Outcome.value)
ViewModel == Get(Outcome.value)
HasPoints == ReturnedModel /\ IsSome(ViewModel.percentiles)
Points == Get(ViewModel.percentiles)
Degraded ==
    ReturnedModel /\ ~IsSome(ViewModel.percentiles) /\ ~IsSome(ViewModel.settings)

Categorical == Get(call.dataView.categorical)
ValuesBound ==
    /\ IsSome(call.dataView.categorical)
    /\ Len(Categorical.values) > 0
    /\ IsSome(Categorical.values[1].values)
CategoryBound ==
    /\ IsSome(call.dataView.categorical)
    /\ Len(Categorical.categories) > 0
    /\ IsSome(Categorical.categories[1].values)
CategoryValues == Get(Categorical.categories[1].values)

\* the dataset converter chooses, once the category column has an element
SamplesChosen == CategoryBound /\ Len(CategoryValues) > 0
Samples ==
    IF revision = "ts" /\ ValuesBound THEN Get(Categorical.values[1].values)
    ELSE CategoryValues

FiniteNumbers(s) == \A i \in 1..Len(s) : s[i].kind = "number"
ValidSamples == SamplesChosen /\ Len(Samples) > 0 /\ FiniteNumbers(Samples)
Minimum(s) == CHOOSE x \in {s[i].n : i \in 1..Len(s)} : \A i \in 1..Len(s) : x <= s[i].n
Maximum(s) == CHOOSE x \in {s[i].n : i \in 1..Len(s)} : \A i \in 1..Len(s) : x >= s[i].n

FirstColumnPresent == ~NoFirstColumn(call.dataView)

-----------------------------------------------------------------------------
(* Claims *)

\* C1: for every non-empty dataset of finite numbers, converter returns a
\* view-model whose percentile list has exactly 101 entries, entry i carrying
\* percentile i, entry 0 the dataset minimum and entry 100 the dataset maximum
\* (values in units of 1/100).
C1_ReturnsAllPercentiles ==
    (Called /\ ValidSamples) =>
        /\ HasPoints
        /\ Len(Points) = 101
        /\ \A i \in 0..100 : Points[i + 1].percentile = i
        /\ Points[1].value = Num(100 * Minimum(Samples))
        /\ Points[101].value = Num(100 * Maximum(Samples))

\* C1, on the calls whose metadata names a first column: the same statement
C1_WithFirstColumn == (Called /\ FirstColumnPresent) => C1_ReturnsAllPercentiles

\* C2: for every valid numeric dataset the values of the 101 percentile points
\* are non-decreasing in the percentile: points[i].value <= points[j].value
\* for all i < j in 0..100, the joins at the minimum and the maximum included.
C2_ValuesNonDecreasing ==
    (HasPoints /\ ValidSamples) =>
        LET value == [i \in 0..100 |-> Points[i + 1].value]
        IN  /\ \A i \in 0..100 : value[i].kind = "number"
            /\ \A i \in 0..99 : \A j \in (i + 1)..100 : value[i].n <= value[j].n

\* C2 witness: points were computed from a column that is not in ascending
\* order, and they rise from the minimum to a larger maximum
C2_Witness ==
    /\ HasPoints
    /\ ValidSamples
    /\ Len(Samples) >= 2
    /\ Samples[1].n > Samples[2].n
    /\ Points[1].value.n < Points[51].value.n
    /\ Points[51].value.n < Points[101].value.n

\* the j-th smallest sample (j = 1 .. n), by counting
OrderStatistic(s, j) ==
    CHOOSE x \in {s[i].n : i \in 1..Len(s)} :
        /\ Cardinality({i \in 1..Len(s) : s[i].n < x}) < j
        /\ j <= Cardinality({i \in 1..Len(s) : s[i].n <= x})

\* the type 7 quantile at probability k/100, in units of 1/100: the value at
\* zero-based rank (n - 1) * k / 100, interpolated between its two neighbours
Type7(s, k) ==
    LET rank == (Len(s) - 1) * k
        below == OrderStatistic(s, (rank \div 100) + 1)
    IN  IF rank % 100 = 0 THEN 100 * below
        ELSE 100 * below
             + (rank % 100) * (OrderStatistic(s, (rank \div 100) + 2) - below)

\* C3: for every valid dataset the value of interior point k (1 <= k <= 99) is
\* the type 7 quantile of the sample at probability k/100; for the dataset
\* 1, 2, ..., 100 point 50 lies between 50 and 51.
C3_InteriorPointsAreType7 ==
    (HasPoints /\ ValidSamples) =>
        /\ \A k \in 1..99 : Points[k + 1].value = Num(Type7(Samples, k))
        /\ Samples = Uniform =>
               /\ 100 * 50 <= Points[51].value.n
               /\ Points[51].value.n <= 100 * 51

\* C3 witness: the points of 1, 2, ..., 100 were computed; point 50 is 50.5
C3_Witness ==
    /\ HasPoints
    /\ Samples = Uniform
    /\ Len(Uniform) = 100
    /\ Points[51].value = Num(5050)

\* C4: for a dataset that is one value v, or copies of one value v, all 101
\* points have value v and the transformation completes without error.
C4_ConstantDataset ==
    (Called /\ ValidSamples /\ \A i \in 1..Len(Samples) : Samples[i] = Samples[1]) =>
        /\ HasPoints
        /\ Len(Points) = 101
        /\ \A i \in 1..101 : Points[i].value = Num(100 * Samples[1].n)

\* C4, on the calls whose metadata names a first column: the same statement
C4_WithFirstColumn == (Called /\ FirstColumnPresent) => C4_ConstantDataset

IsDiagnostic(legend) == legend.text = "Invalid data: Use numeric values"

\* C5: in percentileChart.ts, if any element of the chosen dataset is not a
\* finite number, converter returns the degraded view-model: percentiles,
\* settings, xAxis and yAxis null and the legends carrying the diagnostic text;
\* no percentile is computed from the valid elements.
C5_InvalidElementDegrades ==
    (Called /\ revision = "ts" /\ SamplesChosen /\ ~FiniteNumbers(Samples)) =>
        /\ ReturnedModel
        /\ ViewModel.percentiles = None
        /\ ViewModel.settings = None
        /\ ViewModel.xAxis = None
        /\ ViewModel.yAxis = None
        /\ IsSome(ViewModel.legends)
        /\ \E i \in 1..Len(Get(ViewModel.legends)) :
               IsDiagnostic(Get(ViewModel.legends)[i])

\* C5 witness: a column with a finite number and a NaN gave the degraded model
C5_Witness ==
    /\ Degraded
    /\ revision = "ts"
    /\ SamplesChosen
    /\ \E i, j \in 1..Len(Samples) :
           Samples[i].kind = "number" /\ Samples[j].kind = "NaN"

\* C6 as claimed: the degraded view-model's legend list holds exactly one
\* entry, the diagnostic legend, and no other legend entry.
C6_OnlyDiagnosticLegend ==
    Degraded =>
        /\ IsSome(ViewModel.legends)
        /\ Len(Get(ViewModel.legends)) = 1
        /\ IsDiagnostic(Get(ViewModel.legends)[1])

\* C6 as amended: the degraded view-model has null points and settings and a
\* legend list of exactly two entries: the diagnostic text in the x-axis
\* legend, then the y-axis legend "Percentile"; exactly one is diagnostic.
C6_DiagnosticAndAxisLegend ==
    Degraded =>
        /\ IsSome(ViewModel.legends)
        /\ Len(Get(ViewModel.legends)) = 2
        /\ IsDiagnostic(Get(ViewModel.legends)[1])
        /\ Get(ViewModel.legends)[2].text = "Percentile"
        /\ Cardinality({i \in 1..Len(Get(ViewModel.legends)) :
                           IsDiagnostic(Get(ViewModel.legends)[i])}) = 1

\* C6 witness: a column of one string gave the degraded view-model
C6_Witness ==
    /\ Degraded
    /\ SamplesChosen
    /\ Samples = <<Str>>

\* the column that supplies the samples has zero elements: the values column
\* when one is bound, the category column otherwise
SupplyingColumnEmpty ==
    IF ValuesBound THEN Len(Get(Categorical.values[1].values)) = 0
    ELSE CategoryBound /\ Len(CategoryValues) = 0

\* C7: in percentileChart.ts an empty dataset is recovered locally: whenever
\* the column that supplies the samples has zero elements, converter returns
\* the degraded view-model with the diagnostic legend, never null and never
\* computed percentile points.
C7_EmptyDatasetDegrades ==
    (Called /\ revision = "ts" /\ SupplyingColumnEmpty) =>
        /\ Degraded
        /\ IsSome(ViewModel.legends)
        /\ \E i \in 1..Len(Get(ViewModel.legends)) :
               IsDiagnostic(Get(ViewModel.legends)[i])

\* labels.labelPrecision as configured, when metadata, objects, the labels
\* object and the property are all present
ConfiguredPrecision ==
    LET metadata == call.dataView.metadata
    IN  IF ~IsSome(metadata) THEN None
        ELSE IF ~IsSome(Get(metadata).objects) THEN None
        ELSE IF ~IsSome(Get(Get(metadata).objects).labels) THEN None
        ELSE Get(Get(Get(metadata).objects).labels).labelPrecision

\* C8: the resolved precision is never negative: a configured p < 0 resolves
\* to 0, a configured p >= 0 to p, and an absent configuration to the default
\* (2 in percentileChart.ts, 0 in the earlier revision).
C8_PrecisionResolved ==
    (ReturnedModel /\ IsSome(ViewModel.settings)) =>
        /\ Get(ViewModel.settings).precision >= 0
        /\ Get(ViewModel.settings).precision =
               IF IsSome(ConfiguredPrecision)
               THEN IF Get(ConfiguredPrecision) < 0 THEN 0
                    ELSE Get(ConfiguredPrecision)
               ELSE IF revision = "ts" THEN 2 ELSE 0

\* C8 witness: a configured precision of -3 was resolved to 0
C8_Witness ==
    /\ ReturnedModel
    /\ IsSome(ViewModel.settings)
    /\ revision = "ts"
    /\ ConfiguredPrecision = Some(-3)
    /\ Get(ViewModel.settings).precision = 0

CategoryName == Categorical.categories[1].source.displayName
ValuesName == Categorical.values[1].source.displayName

\* C9: in percentileChart.ts the x-axis title is "<value column> per <category
\* column>" when a values and a category column both exist (and are named),
\* the category column's display name when it alone drives the axis, and ""
\* when no display name is available, for either order of the two columns in
\* metadata.columns.
C9_AxisTitle ==
    (ReturnedModel /\ revision = "ts" /\ IsSome(ViewModel.settings)) =>
        LET title == Get(ViewModel.settings).xAxisTitle
        IN  IF ValuesBound
            THEN /\ (ValuesName # "" /\ CategoryName # "") =>
                        title = ValuesName \o " per " \o CategoryName
                 /\ (ValuesName = "" /\ CategoryName = "") => title = ""
            ELSE title = CategoryName

\* C10: missing configuration or metadata never produces an error: for any
\* dataView with a valid dataset converter returns a view-model whose settings
\* are not null, also when metadata, metadata.columns, metadata.columns[0],
\* the display names or metadata.objects are absent.
C10_MissingMetadataNeverErrors ==
    (Called /\ ValidSamples) =>
        /\ Outcome.outcome = "return"
        /\ IsSome(Outcome.value)
        /\ IsSome(ViewModel.settings)

-----------------------------------------------------------------------------
(* Claims about what is drawn *)

\* the call under study ran on instance i and went on to resize and draw:
\* init empties the display and destroy clears root, so a rendered display
\* under a live root was rendered by this call
Drew(i) ==
    /\ caller = i
    /\ ReturnedModel
    /\ root[i] = "svg"
    /\ display[i].legends # <<>>

\* the domain of the x scale shown by instance i
XDomain(i) == Get(display[i].axes).x

\* C11: in the earlier revision's draw, for every dataset of integers with
\* minimum min and maximum max (negative ones included) the x-axis domain is
\* [domainMin, domainMax] with domainMin the largest multiple of 10 that is
\* <= min and domainMax the smallest multiple of 10 that is >= max; an exact
\* multiple of 10 maps to itself, and min = 13, max = 77 gives [10, 80].
C11_DomainRoundedOutward ==
    \A i \in Instances :
        (revision = "r0" /\ Drew(i) /\ ValidSamples) =>
            LET min == Minimum(Samples)
                max == Maximum(Samples)
                domainMinimum == XDomain(i)[1]
                domainMaximum == XDomain(i)[2]
            IN  /\ domainMinimum.kind = "number"
                /\ domainMaximum.kind = "number"
                /\ domainMinimum.n % 10 = 0
                /\ domainMinimum.n <= min
                /\ min < domainMinimum.n + 10
                /\ domainMaximum.n % 10 = 0
                /\ max <= domainMaximum.n
                /\ domainMaximum.n - 10 < max
                /\ (min % 10 = 0) => domainMinimum.n = min
                /\ (max % 10 = 0) => domainMaximum.n = max
                /\ (min = 13 /\ max = 77) => XDomain(i) = <<Num(10), Num(80)>>

\* C11 witness: the earlier revision drew the dataset 13, 77 on [10, 80]
C11_Witness ==
    /\ revision = "r0"
    /\ Drew(1)
    /\ Samples = <<Num(13), Num(77)>>
    /\ XDomain(1) = <<Num(10), Num(80)>>

\* C12: whenever a valid dataset has min = max (an exact multiple of 10
\* included), the update completes and draws, and the x-axis domain it shows
\* has domainMin < domainMax.
C12_ZeroSpreadDomain ==
    \A i \in Instances :
        (caller = i /\ Called /\ root[i] = "svg" /\ ValidSamples
                    /\ Minimum(Samples) = Maximum(Samples)) =>
            /\ Drew(i)
            /\ IsSome(display[i].axes)
            /\ XDomain(i)[1].kind = "number"
            /\ XDomain(i)[2].kind = "number"
            /\ XDomain(i)[1].n < XDomain(i)[2].n

-----------------------------------------------------------------------------
(* Claims about sequences of handler calls *)

\* what converter gives for the arguments of the call under study on a visual
\* that has just been built: a function of the arguments alone
FreshResult ==
    IF revision = "ts"
    THEN converter(call.dataView, call.viewport, Some(InitialRange))
    ELSE converter_r0(call.dataView, Some(InitialRange))

\* C13: the transformation is history-free: after any sequence of init,
\* update and destroy calls on any instances, a converter call that returns
\* has returned exactly what its dataset, settings and viewport give on a
\* freshly built visual, so two calls with identical arguments return
\* identical view-models (points, settings, legends) whatever ran before or
\* between them and whichever instance ran them.
C13_HistoryFree ==
    (Called /\ Outcome.outcome = "return") => Outcome = FreshResult

\* C13 witness: instance 2 computed the points of one dataset after instance
\* 1 had stored the points of another
C13_Witness ==
    /\ caller = 2
    /\ HasPoints
    /\ Outcome = FreshResult
    /\ IsSome(model[1])
    /\ IsSome(Get(model[1]).percentiles)
    /\ Get(model[1]).percentiles # ViewModel.percentiles

-----------------------------------------------------------------------------
(* Further claims about one converter call *)

\* C14: in percentileChart.ts, for valid input the view-model's legends are
\* exactly two entries in this order: the x-axis legend, whose text is the
\* xAxisTitle of the view-model's settings, then the y-axis legend, whose text
\* is "Percentile".
C14_LegendsForValidInput ==
    (revision = "ts" /\ ValidSamples /\ ReturnedModel) =>
        /\ IsSome(ViewModel.settings)
        /\ IsSome(ViewModel.legends)
        /\ Len(Get(ViewModel.legends)) = 2
        /\ Get(ViewModel.legends)[1].text = Get(ViewModel.settings).xAxisTitle
        /\ Get(ViewModel.legends)[2].text = "Percentile"

\* C14 witness: a valid values column beside a category column gave the
\* legends "Sales per Region" and "Percentile"
C14_Witness ==
    /\ revision = "ts"
    /\ ValidSamples
    /\ HasPoints
    /\ Get(ViewModel.settings).xAxisTitle = "Sales per Region"
    /\ Get(ViewModel.legends)[1].text = "Sales per Region"
    /\ Get(ViewModel.legends)[2].text = "Percentile"

-----------------------------------------------------------------------------
(* Claims about what one instance shows over a sequence of updates *)

\* the diagnostic text is among the legends instance i shows
ShowsDiagnostic(i) ==
    \E k \in 1..Len(display[i].legends) : IsDiagnostic(display[i].legends[k])

\* C15: in percentileChart.ts, after an update whose dataset is invalid the
\* display shows the diagnostic legend text and no percentile curve, data
\* points or axes, whatever updates came before, an update that drew a curve
\* for valid data included.
C15_DiagnosticReplacesChart ==
    \A i \in Instances :
        (revision = "ts" /\ Drew(i) /\ SamplesChosen /\ ~FiniteNumbers(Samples)) =>
            /\ ShowsDiagnostic(i)
            /\ display[i].curve = None
            /\ display[i].circles = None
            /\ display[i].axes = None

\* dataPoint.fill as configured, when metadata, objects, the dataPoint object
\* and the property are all present
ConfiguredFill ==
    LET metadata == call.dataView.metadata
    IN  IF ~IsSome(metadata) THEN None
        ELSE IF ~IsSome(Get(metadata).objects) THEN None
        ELSE IF ~IsSome(Get(Get(metadata).objects).dataPoint) THEN None
        ELSE Get(Get(Get(metadata).objects).dataPoint).fill

\* C16: the fillColor of the settings is the configured dataPoint.fill colour
\* when that property is present in the metadata objects and 'teal' otherwise
\* (objects absent, or present without dataPoint.fill), whether or not
\* labels.labelPrecision is configured.
C16_FillColorResolved ==
    (ReturnedModel /\ IsSome(ViewModel.settings)) =>
        Get(ViewModel.settings).fillColor =
            IF IsSome(ConfiguredFill) THEN Get(ConfiguredFill) ELSE "teal"

\* C16 witness: with a label precision configured and no dataPoint.fill, the
\* fill colour resolved to 'teal' and the precision to the configured one
C16_Witness ==
    /\ ReturnedModel
    /\ IsSome(ViewModel.settings)
    /\ revision = "ts"
    /\ ConfiguredPrecision = Some(4)
    /\ ~IsSome(ConfiguredFill)
    /\ IsSome(Get(call.dataView.metadata).objects)
    /\ Get(ViewModel.settings).fillColor = "teal"
    /\ Get(ViewModel.settings).precision = 4

-----------------------------------------------------------------------------
(* Claims about the static table and the stored model *)

\* dataViews that get past the checks before the percentile computation:
\* finite, non-finite and non-numeric columns (the earlier revision checks
\* nothing but the category column's length) and an empty values column
AssertionDataViews ==
    {CategoryDataView(d, RegionMetadata) :
        d \in {<<Num(7)>>, <<Num(10), Num(-13)>>, <<Num(7), NaN>>, <<Str>>}}
    \cup {DataView(<<Column(Some(<<Num(7)>>), CategorySource("Region"))>>,
                   <<Column(Some(<<>>), ValuesSource("Sales"))>>, RegionMetadata)}

\* the column converter computes on
ChosenValues(dataView) ==
    IF revision = "ts" /\ HasValuesColumn(dataView)
    THEN Get(Get(dataView.categorical).values[1].values)
    ELSE Get(Get(dataView.categorical).categories[1].values)

\* converter gets as far as the percentile computation on dataView
ReachesComputation(dataView) ==
    /\ ~NoCategoryValues(dataView)
    /\ revision = "ts" => validateValues(ChosenValues(dataView))

\* percentiles after unshift(min) and push(max), with the table as it is now
PercentilesWithExtremes(dataView) ==
    LET values == ChosenValues(dataView)
    IN  withExtremes(quantiles(values, Get(percentileRange)),
                     d3_min(values), d3_max(values), Len(Get(percentileRange)))

\* the three assertions of converter hold for a call made now: percentileRange
\* is non-null with length 100, and for every dataView that gets past the
\* earlier checks the quantiles with min prepended and max appended have
\* length exactly 101
AssertionsHold ==
    /\ IsSome(percentileRange)
    /\ Len(Get(percentileRange)) = 100
    /\ \A dataView \in AssertionDataViews :
           ReachesComputation(dataView) =>
               Len(PercentilesWithExtremes(dataView)) = 101

\* C17: in every lifecycle in which the host calls init on an instance
\* before it calls update on it, the assertions of converter hold on every
\* call: once an instance has been built percentileRange is non-null with
\* length 100, and the sequence min, quantiles, max has length 101 for every
\* dataView that gets past the earlier checks, that of the call made included.
C17_AssertionsHold ==
    (\E i \in Instances : root[i] # "unset") =>
        /\ AssertionsHold
        /\ (Called /\ ReachesComputation(call.dataView)) =>
               /\ Len(PercentilesWithExtremes(call.dataView)) = 101
               /\ Outcome.outcome = "return" => HasPoints /\ Len(Points) = 101

\* C17 witness: an instance that init had built ran an update that computed
\* and drew the 101 points from the table 0 .. 99
C17_Witness ==
    /\ \E i \in Instances : Drew(i)
    /\ HasPoints
    /\ Len(Points) = 101
    /\ IsSome(percentileRange)
    /\ Len(Get(percentileRange)) = 100
    /\ Len(PercentilesWithExtremes(call.dataView)) = 101

\* C18: the static percentileRange is write-once: the first init on any
\* instance sets it to 0, 1, ..., 99, nothing but an init sets it, and once
\* set no init, update, enumerateObjectInstances or destroy on any instance
\* changes it (its contents stay 0 .. 99, its length 100).
C18_TableWriteOnce ==
    [][/\ IsSome(percentileRange) =>
              /\ percentileRange' = percentileRange
              /\ Len(Get(percentileRange')) = 100
              /\ \A k \in 1..100 : Get(percentileRange')[k] = k - 1
       /\ (~IsSome(percentileRange) /\ \E i \in Instances : root'[i] = "svg") =>
              percentileRange' = Some([k \in 1..100 |-> k - 1])
       /\ (~IsSome(percentileRange) /\ IsSome(percentileRange')) =>
              \E i \in Instances : root[i] # "svg" /\ root'[i] = "svg"]_vars

\* C18 witness: the table is 0 .. 99 after instance 1 was built, updated and
\* destroyed and instance 2 was built, updated and enumerated
C18_Witness ==
    /\ percentileRange = Some([k \in 1..100 |-> k - 1])
    /\ root[1] = "null"
    /\ IsSome(model[1])
    /\ root[2] = "svg"
    /\ IsSome(model[2])
    /\ IsSome(enumerated)
    /\ Get(enumerated).instance = 2
    /\ Len(Get(enumerated).instances) = 1

\* C19: the stored view-model is replaced wholesale by every update that
\* carries a dataView: after any sequence of updates, the model stored on the
\* instance that ran the last such update is the converter result of that
\* update (null when the category column is missing or empty).
C19_ModelIsLastResult ==
    \A i \in Instances :
        (caller = i /\ Called) =>
            /\ Outcome.outcome = "return"
            /\ model[i] = Outcome.value
            /\ NoCategoryValues(call.dataView) => model[i] = None

\* C19, on the updates whose metadata names a first column: the same statement
C19_WithFirstColumn == FirstColumnPresent => C19_ModelIsLastResult

-----------------------------------------------------------------------------
(* Claims about the column converter computes on *)

\* the column the claim names as the source: the values column when one with
\* a values array is bound, the first category column otherwise
SourceColumn ==
    IF ValuesBound THEN Categorical.values[1] ELSE Categorical.categories[1]

\* the 101 points of a column s, from the table 0 .. 99
PointsOf(s) ==
    percentilePoints(withExtremes(quantiles(s, InitialRange), d3_min(s), d3_max(s), 100))

\* C20: in percentileChart.ts converter returns null whenever the category
\* column is missing or empty, whatever the values column holds; otherwise
\* the samples, the validation and the axis metadata column all come from the
\* values column when one with a values array is bound, and all three from
\* the first category column when none is.
C20_SampleSource ==
    (Called /\ revision = "ts") =>
        /\ ~SamplesChosen => Outcome = ReturnNull
        /\ (SamplesChosen /\ ReturnedModel) =>
               /\ Degraded <=> ~FiniteNumbers(Get(SourceColumn.values))
               /\ HasPoints <=> FiniteNumbers(Get(SourceColumn.values))
               /\ HasPoints =>
                      /\ Points = PointsOf(Get(SourceColumn.values))
                      /\ Get(ViewModel.xAxis).metaDataColumn = Some(SourceColumn.source)

\* C20 witness: with the category column 7, 7 and the values column 10, -13
\* the points run from -13 to 10 and the axis has the values column's metadata
C20_Witness ==
    /\ revision = "ts"
    /\ HasPoints
    /\ ValuesBound
    /\ CategoryValues = <<Num(7), Num(7)>>
    /\ Get(Categorical.values[1].values) = <<Num(10), Num(-13)>>
    /\ Points[1].value = Num(-1300)
    /\ Points[101].value = Num(1000)
    /\ Get(ViewModel.xAxis).metaDataColumn = Some(Categorical.values[1].source)


-----------------------------------------------------------------------------
(* The format pane *)

\* the step is a call of enumerateObjectInstances
Enumerates == enumerated' # enumerated

\* what the claim expects for a stored model and an object name
ExpectedInstances(stored, objectName, instances) ==
    IF ~IsSome(stored) THEN instances = <<>>
    ELSE IF ~IsSome(Get(stored).settings) THEN instances = <<>>
    ELSE LET settings == Get(Get(stored).settings)
         IN  CASE objectName = "dataPoint" ->
                    /\ Len(instances) = 1
                    /\ instances[1].objectName = "dataPoint"
                    /\ instances[1].properties.fill = settings.fillColor
               [] objectName = "labels" ->
                    /\ Len(instances) = 1
                    /\ instances[1].objectName = "labels"
                    /\ instances[1].properties.labelPrecision = settings.precision
                    /\ settings.precision >= 0
               [] OTHER -> instances = <<>>

\* C21: every call of enumerateObjectInstances returns the empty list when
\* the instance has no stored model, a null one or a degraded one (settings
\* null); otherwise one instance carrying the stored settings.fillColor for
\* "dataPoint", one carrying the stored settings.precision (>= 0) for
\* "labels", and the empty list for any other object name; and it leaves the
\* stored models as they were
C21_EnumerateReflectsModel ==
    [][Enumerates =>
         /\ model' = model
         /\ LET e == Get(enumerated')
            IN  ExpectedInstances(model[e.instance], e.objectName, e.instances)]_vars

\* the format pane was asked for "dataPoint" on an instance whose stored
\* model carries the configured fill, and got that fill
C21_Witness ==
    /\ IsSome(enumerated)
    /\ Get(enumerated).objectName = "dataPoint"
    /\ IsSome(model[Get(enumerated).instance])
    /\ IsSome(Get(model[Get(enumerated).instance]).settings)
    /\ Get(Get(model[Get(enumerated).instance]).settings).fillColor = "red"
    /\ Len(Get(enumerated).instances) = 1
    /\ Get(enumerated).instances[1].properties.fill = "red"

-----------------------------------------------------------------------------
(* The tooltips *)

\* the formatter of the view-model the last call built: model.xAxis.formatter
\* in percentileChart.ts, model.formatter in the earlier revision
CurrentFormatter ==
    IF revision = "ts" THEN ViewModel.xAxis ELSE ViewModel.formatter

\* what the tooltip of the circle for percentile j - 1 of instance i captured
TooltipData(i, j) == Get(display[i].tooltips).data[j]

TooltipFormatter(i) == Get(display[i].tooltips).formatter

\* C22: after any sequence of updates with valid data, the tooltip of the
\* data point for percentile i reports percentile i and the value of
\* points[i] of the view-model the last update built, formatted with that
\* view-model's formatter, never a value or a formatter captured by an
\* earlier update.
C22_TooltipsCurrent ==
    \A i \in Instances :
        (Drew(i) /\ HasPoints) =>
            /\ IsSome(display[i].tooltips)
            /\ \A j \in 1..PointCount :
                   /\ TooltipData(i, j).percentile = j - 1
                   /\ TooltipData(i, j).value = Points[j].value
            /\ TooltipFormatter(i) = CurrentFormatter

====
